---- MODULE Spec2Model ----
(***************************************************************************)
(* Blackjack-Pro: the strategy engine (js/strategy.js, BlackjackStrategy)  *)
(* with its memoization cache, and the application that calls it (app.js,  *)
(* BlackjackApp).                                                          *)
(*                                                                         *)
(* Five specifications share the variables:                                *)
(*   Spec        one BlackjackStrategy instance serving a sequence of      *)
(*               getAdvice calls (the cache is the state);                 *)
(*   SpecEngine  the engine's functions applied once to inputs drawn from  *)
(*               their whole documented domain, on a fresh instance;       *)
(*   SpecHand    calculateHand applied to every sequence of 2..5 ranks;    *)
(*   SpecAlias   getAdvice calls of a caller that writes into the advice   *)
(*               objects it is handed;                                     *)
(*   SpecApp     the application: the operations of its user, ended by a   *)
(*               click on the advice button.                               *)
(***************************************************************************)
EXTENDS Integers, Sequences, FiniteSets, TLC

VARIABLES
    cache,             \* BlackjackStrategy.cache: Map in insertion order, as a sequence of [key, advice]
    hand,              \* the hand of the current call: [total, isSoft, isPair, cards]
    dealerCard,        \* the dealer upcard (a rank) of the current call
    availableActions,  \* the action list of the current call
    advice,            \* what the call returned
    pc,                \* which function was applied ("idle" before any call)
    hit,               \* TRUE when the call was served from the cache
    calls,             \* number of free getAdvice calls made on the instance
    warm,              \* number of warm-up getAdvice calls made on the instance
    cards,             \* the card sequence handed to calculateHand
    app,               \* BlackjackApp: selectedDealerCard, playerCards, inputMode, handHistory, stats
    dom                \* the page: #handTotal, the checkboxes, the result shown, the toast

vars == <<cache, hand, dealerCard, availableActions, advice, pc, hit, calls, warm, cards, app, dom>>

----------------------------------------------------------------------------
(* Bounds of the model *)

\* number of free getAdvice calls explored after the warm-up
MaxCalls == 2

\* the warm-up stops at most this many calls past the cache capacity
BatchOver == 1

\* longest card sequence from which SpecEngine builds its hands
EngineCards == 2

----------------------------------------------------------------------------
(* Card ranks and their values *)

NumberRanks == {"2", "3", "4", "5", "6", "7", "8", "9", "10"}

Ranks == NumberRanks \cup {"J", "Q", "K", "A"}

\* this.dealerValues
dealerValues ==
    [r \in Ranks |->
        CASE r = "2" -> 2 [] r = "3" -> 3 [] r = "4" -> 4 [] r = "5" -> 5
          [] r = "6" -> 6 [] r = "7" -> 7 [] r = "8" -> 8 [] r = "9" -> 9
          [] r = "10" -> 10 [] r = "J" -> 10 [] r = "Q" -> 10 [] r = "K" -> 10
          [] r = "A" -> 11]

\* the value of one decimal digit character
DigitValue(ch) ==
    CASE ch = "0" -> 0 [] ch = "1" -> 1 [] ch = "2" -> 2 [] ch = "3" -> 3
      [] ch = "4" -> 4 [] ch = "5" -> 5 [] ch = "6" -> 6 [] ch = "7" -> 7
      [] ch = "8" -> 8 [] ch = "9" -> 9

\* parseInt on the numeric rank strings "2".."10" (one or two digits)
parseInt(s) ==
    IF s = "10" THEN DigitValue("1") * 10 + DigitValue("0") ELSE DigitValue(s)

\* alwaysSplitPairs without the aces
alwaysSplitPairs_OnlyEights == {8}

\* alwaysSplitPairs with the tens put into the wrong set
alwaysSplitPairs_WithTens == {8, 10, 11}

\* this.alwaysSplitPairs / this.neverSplitPairs
alwaysSplitPairs == {8, 11}

neverSplitPairs == {5, 10}

\* this.cacheMaxSize
cacheMaxSize == 100

\* addPlayerCard refuses a sixth card; getAdvice needs at least two
MaxCards == 5

MinCards == 2

\* Array.prototype.includes
Includes(list, x) == \E i \in 1..Len(list) : list[i] = x

----------------------------------------------------------------------------
(* BlackjackApp.getCardValue and calculateHand *)

\* getCardValue counting the face cards by their rank, J = 11, Q = 12, K = 13
getCardValue_FaceByRank(card) ==
    IF card = "A" THEN 11
    ELSE IF card = "J" THEN 11
    ELSE IF card = "Q" THEN 12
    ELSE IF card = "K" THEN 13
    ELSE parseInt(card)

getCardValue(card) ==
    IF card = "A" THEN 11
    ELSE IF card \in {"J", "Q", "K"} THEN 10
    ELSE parseInt(card)

\* first loop of calculateHand: the sum with every ace counted as 11
RECURSIVE SumValues(_)
SumValues(cs) ==
    IF cs = <<>> THEN 0 ELSE getCardValue(Head(cs)) + SumValues(Tail(cs))

\* first loop of calculateHand: the number of aces
RECURSIVE CountAces(_)
CountAces(cs) ==
    IF cs = <<>> THEN 0
    ELSE (IF Head(cs) = "A" THEN 1 ELSE 0) + CountAces(Tail(cs))

\* AdjustAces demoting an ace already at exactly 21
RECURSIVE AdjustAces_From21(_, _)
AdjustAces_From21(total, aces) ==
    IF total >= 21 /\ aces > 0 THEN AdjustAces_From21(total - 10, aces - 1)
    ELSE [total |-> total, aces |-> aces]

\* while (total > 21 && aces > 0) { total -= 10; aces--; }
RECURSIVE AdjustAces(_, _)
AdjustAces(total, aces) ==
    IF total > 21 /\ aces > 0 THEN AdjustAces(total - 10, aces - 1)
    ELSE [total |-> total, aces |-> aces]

\* calculateHand comparing the two ranks instead of their values
calculateHand_RankPair(cs) ==
    LET adj == AdjustAces(SumValues(cs), CountAces(cs))
        isSoft == adj.aces > 0 /\ adj.total <= 21
        isPair == IF Len(cs) = 2 THEN cs[1] = cs[2] ELSE FALSE
    IN  [total |-> adj.total, isSoft |-> isSoft, isPair |-> isPair, cards |-> cs]

calculateHand(cs) ==
    LET adj == AdjustAces(SumValues(cs), CountAces(cs))
        isSoft == adj.aces > 0 /\ adj.total <= 21
        isPair == IF Len(cs) = 2
                  THEN getCardValue(cs[1]) = getCardValue(cs[2])
                  ELSE FALSE
    IN  [total |-> adj.total, isSoft |-> isSoft, isPair |-> isPair, cards |-> cs]

----------------------------------------------------------------------------
(* BlackjackStrategy: the three rule tables *)

Adv(a, e) == [action |-> a, explanation |-> e]

\* hard 16
Hard16(dealerValue, canSurrender) ==
    IF dealerValue >= 9 /\ canSurrender THEN
        Adv("SURRENDER", "16 tegen 9-A is zeer ongunstig - surrender minimaliseert verlies.")
    ELSE IF dealerValue >= 2 /\ dealerValue <= 6 THEN
        Adv("STAND", "Dealer heeft hoge bust kans - blijf staan met 16.")
    ELSE
        Adv("HIT", "16 is zwak tegen sterke dealer - risico nemen.")

\* Hard15 surrendering against every ten-or-higher upcard, the ace included
Hard15_FromTen(dealerValue, canSurrender) ==
    IF dealerValue >= 10 /\ canSurrender THEN
        Adv("SURRENDER", "15 tegen 10 is zeer ongunstig - surrender is beste optie.")
    ELSE IF dealerValue >= 2 /\ dealerValue <= 6 THEN
        Adv("STAND", "Dealer kan gemakkelijk busten - blijf staan.")
    ELSE
        Adv("HIT", "15 is te zwak - neem het risico.")

\* hard 15
Hard15(dealerValue, canSurrender) ==
    IF dealerValue = 10 /\ canSurrender THEN
        Adv("SURRENDER", "15 tegen 10 is zeer ongunstig - surrender is beste optie.")
    ELSE IF dealerValue >= 2 /\ dealerValue <= 6 THEN
        Adv("STAND", "Dealer kan gemakkelijk busten - blijf staan.")
    ELSE
        Adv("HIT", "15 is te zwak - neem het risico.")

\* hard 13-14
Hard13to14(total, dealerValue) ==
    IF dealerValue >= 2 /\ dealerValue <= 6 THEN
        Adv("STAND", "Dealer heeft zwakke kaart - laat dealer busten.")
    ELSE
        Adv("HIT", ToString(total) \o " is te laag tegen sterke dealer.")

\* hard 12
Hard12(dealerValue) ==
    IF dealerValue >= 4 /\ dealerValue <= 6 THEN
        Adv("STAND", "Dealer heeft hoogste bust kans - blijf staan.")
    ELSE
        Adv("HIT", "12 is te laag - bust kans is acceptabel (alleen 10,J,Q,K).")

\* hard 11
Hard11(canDouble) ==
    IF canDouble THEN
        Adv("DOUBLE", "11 is perfect voor doubling - grote kans op 21.")
    ELSE
        Adv("HIT", "11 kan niet busten - neem een kaart.")

\* hard 10
Hard10(dealerValue, canDouble) ==
    IF dealerValue >= 2 /\ dealerValue <= 9 /\ canDouble THEN
        Adv("DOUBLE", "10 is sterk voor doubling tegen deze dealer kaart.")
    ELSE
        Adv("HIT", "10 kan niet busten - neem een kaart.")

\* hard 9
Hard9(dealerValue, canDouble) ==
    IF dealerValue >= 3 /\ dealerValue <= 6 /\ canDouble THEN
        Adv("DOUBLE", "Double 9 tegen zwakke dealer kaarten.")
    ELSE
        Adv("HIT", "9 is te laag - blijf kaarten nemen.")

getHardStrategy(total, dealerValue, actions) ==
    LET canDouble == Includes(actions, "double")
        canSurrender == Includes(actions, "surrender")
    IN  IF total >= 17 THEN
            Adv("STAND", ToString(total) \o " is hoog genoeg - risico op busten is te groot.")
        ELSE IF total = 16 THEN Hard16(dealerValue, canSurrender)
        ELSE IF total = 15 THEN Hard15(dealerValue, canSurrender)
        ELSE IF total = 13 \/ total = 14 THEN Hard13to14(total, dealerValue)
        ELSE IF total = 12 THEN Hard12(dealerValue)
        ELSE IF total = 11 THEN Hard11(canDouble)
        ELSE IF total = 10 THEN Hard10(dealerValue, canDouble)
        ELSE IF total = 9 THEN Hard9(dealerValue, canDouble)
        ELSE Adv("HIT", "Hand is te laag - kan niet busten, blijf kaarten nemen.")

\* soft 19 (A,8)
Soft19(dealerValue, canDouble) ==
    IF dealerValue = 6 /\ canDouble THEN
        Adv("DOUBLE", "Double soft 19 tegen 6 voor extra winst (dealer heeft hoge bust kans).")
    ELSE
        Adv("STAND", "Soft 19 is sterk - blijf staan.")

\* Soft18 hitting only from a dealer ten
Soft18_HitFromTen(dealerValue, canDouble) ==
    IF dealerValue >= 10 THEN
        Adv("HIT", "Soft 18 is zwak tegen 9-A - probeer te verbeteren.")
    ELSE IF (dealerValue >= 3 /\ dealerValue <= 6) /\ canDouble THEN
        Adv("DOUBLE", "Double soft 18 tegen zwakke dealer voor meer winst.")
    ELSE
        Adv("STAND", "Soft 18 is redelijk tegen deze kaart.")

\* soft 18 (A,7)
Soft18(dealerValue, canDouble) ==
    IF dealerValue >= 9 THEN
        Adv("HIT", "Soft 18 is zwak tegen 9-A - probeer te verbeteren.")
    ELSE IF (dealerValue >= 3 /\ dealerValue <= 6) /\ canDouble THEN
        Adv("DOUBLE", "Double soft 18 tegen zwakke dealer voor meer winst.")
    ELSE
        Adv("STAND", "Soft 18 is redelijk tegen deze kaart.")

\* soft 17 (A,6)
Soft17(dealerValue, canDouble) ==
    IF (dealerValue >= 3 /\ dealerValue <= 6) /\ canDouble THEN
        Adv("DOUBLE", "Double soft 17 tegen zwakke dealer - kan niet busten.")
    ELSE
        Adv("HIT", "Soft 17 is zwak - neem een kaart (kan niet busten).")

\* soft 15-16 (A,4-5)
Soft15to16(dealerValue, canDouble) ==
    IF (dealerValue >= 4 /\ dealerValue <= 6) /\ canDouble THEN
        Adv("DOUBLE", "Double tegen dealer 4-6 voor optimale winst.")
    ELSE
        Adv("HIT", "Hand is te zwak - neem kaarten (kan niet busten).")

\* soft 13-14 (A,2-3)
Soft13to14(dealerValue, canDouble) ==
    IF (dealerValue = 5 \/ dealerValue = 6) /\ canDouble THEN
        Adv("DOUBLE", "Double tegen de zwakste dealer kaarten.")
    ELSE
        Adv("HIT", "Hand is zwak - blijf kaarten nemen.")

getSoftStrategy(total, dealerValue, actions) ==
    LET canDouble == Includes(actions, "double")
    IN  IF total = 20 THEN Adv("STAND", "Soft 20 is bijna perfect - blijf staan.")
        ELSE IF total = 19 THEN Soft19(dealerValue, canDouble)
        ELSE IF total = 18 THEN Soft18(dealerValue, canDouble)
        ELSE IF total = 17 THEN Soft17(dealerValue, canDouble)
        ELSE IF total = 15 \/ total = 16 THEN Soft15to16(dealerValue, canDouble)
        ELSE IF total = 13 \/ total = 14 THEN Soft13to14(dealerValue, canDouble)
        ELSE Adv("HIT", "Hand is te laag - blijf kaarten nemen.")

\* A,A and 8,8
PairAlwaysSplit(card) ==
    Adv("SPLIT",
        IF card = 11
        THEN "Split aces altijd - geeft twee kansen op blackjack."
        ELSE "Split 8s altijd - 16 is een slechte hand, twee 18s is beter.")

\* 10,10 and 5,5
PairNeverSplit(card, dealerValue, actions) ==
    IF card = 10 THEN
        Adv("STAND", "20 is een te goede hand om te splitten.")
    ELSE
        getHardStrategy(10, dealerValue, actions)

\* Pair9 standing against a dealer 9 as well
Pair9_StandFrom9(dealerValue) ==
    IF dealerValue = 7 \/ dealerValue >= 9 THEN
        Adv("STAND", "18 is sterk genoeg tegen deze dealer kaart.")
    ELSE
        Adv("SPLIT", "Split 9s tegen zwakkere dealer kaarten voor meer winst.")

\* 9,9
Pair9(dealerValue) ==
    IF dealerValue = 7 \/ dealerValue >= 10 THEN
        Adv("STAND", "18 is sterk genoeg tegen deze dealer kaart.")
    ELSE
        Adv("SPLIT", "Split 9s tegen zwakkere dealer kaarten voor meer winst.")

\* Pair7 standing on its 14 where it does not split
Pair7_StandElse(dealerValue) ==
    IF dealerValue >= 2 /\ dealerValue <= 7 THEN
        Adv("SPLIT", "Split 7s tegen zwakkere dealer kaarten.")
    ELSE
        Adv("STAND", "14 is te zwak - neem een kaart.")

\* 7,7
Pair7(dealerValue) ==
    IF dealerValue >= 2 /\ dealerValue <= 7 THEN
        Adv("SPLIT", "Split 7s tegen zwakkere dealer kaarten.")
    ELSE
        Adv("HIT", "14 is te zwak - neem een kaart.")

\* 6,6
Pair6(dealerValue) ==
    IF dealerValue >= 2 /\ dealerValue <= 6 THEN
        Adv("SPLIT", "Split 6s wanneer dealer zwak is (bust kans).")
    ELSE
        Adv("HIT", "12 is te zwak tegen sterke dealer kaart.")

\* Pair4 splitting against 4 as well
Pair4_From4(dealerValue) ==
    IF dealerValue >= 4 /\ dealerValue <= 6 THEN
        Adv("SPLIT", "Split 4s alleen tegen de zwakste dealer kaarten.")
    ELSE
        Adv("HIT", "8 is te laag - neem een kaart.")

\* 4,4
Pair4(dealerValue) ==
    IF dealerValue = 5 \/ dealerValue = 6 THEN
        Adv("SPLIT", "Split 4s alleen tegen de zwakste dealer kaarten.")
    ELSE
        Adv("HIT", "8 is te laag - neem een kaart.")

\* 3,3
Pair3(dealerValue) ==
    IF dealerValue >= 2 /\ dealerValue <= 7 THEN
        Adv("SPLIT", "Split 3s tegen zwakkere dealer kaarten.")
    ELSE
        Adv("HIT", "6 is te laag tegen sterke dealer kaart.")

\* 2,2
Pair2(dealerValue) ==
    IF dealerValue >= 2 /\ dealerValue <= 7 THEN
        Adv("SPLIT", "Split 2s tegen zwakkere dealer kaarten.")
    ELSE
        Adv("HIT", "4 is te laag - neem kaarten tot 12+.")

getPairStrategy(cardValue, dealerValue, actions) ==
    LET card == IF cardValue \in DOMAIN dealerValues
                THEN dealerValues[cardValue]
                ELSE parseInt(cardValue)
    IN  IF card \in alwaysSplitPairs THEN PairAlwaysSplit(card)
        ELSE IF card \in neverSplitPairs THEN PairNeverSplit(card, dealerValue, actions)
        ELSE IF card = 9 THEN Pair9(dealerValue)
        ELSE IF card = 7 THEN Pair7(dealerValue)
        ELSE IF card = 6 THEN Pair6(dealerValue)
        ELSE IF card = 4 THEN Pair4(dealerValue)
        ELSE IF card = 3 THEN Pair3(dealerValue)
        ELSE IF card = 2 THEN Pair2(dealerValue)
        ELSE getHardStrategy(card * 2, dealerValue, actions)

----------------------------------------------------------------------------
(* BlackjackStrategy: the cache and the dispatcher *)

\* `${true}` / `${false}` in a template literal
BoolStr(b) == IF b THEN "true" ELSE "false"

\* Array.prototype.join(',')
RECURSIVE Join(_)
Join(list) ==
    IF list = <<>> THEN ""
    ELSE IF Len(list) = 1 THEN list[1]
    ELSE list[1] \o "," \o Join(Tail(list))

\* getCacheKey without the pair flag
getCacheKey_NoPair(h, dealerValue, actions) ==
    ToString(h.total) \o "-" \o BoolStr(h.isSoft)
        \o "-" \o ToString(dealerValue) \o "-" \o Join(actions)

\* getCacheKey without the action list
getCacheKey_NoActions(h, dealerValue, actions) ==
    ToString(h.total) \o "-" \o BoolStr(h.isSoft) \o "-" \o BoolStr(h.isPair)
        \o "-" \o ToString(dealerValue)

getCacheKey(h, dealerValue, actions) ==
    ToString(h.total) \o "-" \o BoolStr(h.isSoft) \o "-" \o BoolStr(h.isPair)
        \o "-" \o ToString(dealerValue) \o "-" \o Join(actions)

\* what getCachedAdvice returns on a miss
Null == [action |-> "null", explanation |-> "null"]

\* Map.prototype.has
CacheHas(c, key) == \E i \in 1..Len(c) : c[i].key = key

\* Map.prototype.get
CacheGet(c, key) == c[CHOOSE i \in 1..Len(c) : c[i].key = key].advice

\* Map.prototype.set: a present key keeps its place, a new key goes last
CacheSet(c, key, adv) ==
    IF CacheHas(c, key)
    THEN [i \in 1..Len(c) |-> IF c[i].key = key THEN [key |-> key, advice |-> adv] ELSE c[i]]
    ELSE Append(c, [key |-> key, advice |-> adv])

getCachedAdvice(c, h, dealerValue, actions) ==
    LET cacheKey == getCacheKey(h, dealerValue, actions)
    IN  IF CacheHas(c, cacheKey) THEN CacheGet(c, cacheKey) ELSE Null

\* setCacheAdvice evicting only once the cache is over its limit
setCacheAdvice_Late(c, h, dealerValue, actions, adv) ==
    LET limited == IF Len(c) > cacheMaxSize THEN Tail(c) ELSE c
    IN  CacheSet(limited, getCacheKey(h, dealerValue, actions), adv)

\* setCacheAdvice evicting the newest entry instead of the oldest
setCacheAdvice_EvictNewest(c, h, dealerValue, actions, adv) ==
    LET limited == IF Len(c) >= cacheMaxSize THEN SubSeq(c, 1, Len(c) - 1) ELSE c
    IN  CacheSet(limited, getCacheKey(h, dealerValue, actions), adv)

\* the cache after setCacheAdvice
setCacheAdvice(c, h, dealerValue, actions, adv) ==
    LET limited == IF Len(c) >= cacheMaxSize THEN Tail(c) ELSE c
    IN  CacheSet(limited, getCacheKey(h, dealerValue, actions), adv)

\* getAdvice with the else branch of the soft/hard dispatch missing
getAdvice_NoElse(c, h, dCard, actions) ==
    LET dealerValue == dealerValues[dCard]
        cachedResult == getCachedAdvice(c, h, dealerValue, actions)
        pairAdvice == getPairStrategy(h.cards[1], dealerValue, actions)
        adv == IF h.isSoft
               THEN getSoftStrategy(h.total, dealerValue, actions)
               ELSE Null
    IN  IF cachedResult # Null THEN
            [advice |-> cachedResult, cache |-> c]
        ELSE IF h.isPair /\ Includes(actions, "split") /\ pairAdvice.action = "SPLIT" THEN
            [advice |-> pairAdvice,
             cache |-> setCacheAdvice(c, h, dealerValue, actions, pairAdvice)]
        ELSE
            [advice |-> adv,
             cache |-> setCacheAdvice(c, h, dealerValue, actions, adv)]

\* getAdvice without the early return: a SPLIT of the pair table is overwritten
getAdvice_NoReturn(c, h, dCard, actions) ==
    LET dealerValue == dealerValues[dCard]
        cachedResult == getCachedAdvice(c, h, dealerValue, actions)
        adv == IF h.isSoft
               THEN getSoftStrategy(h.total, dealerValue, actions)
               ELSE getHardStrategy(h.total, dealerValue, actions)
    IN  IF cachedResult # Null THEN
            [advice |-> cachedResult, cache |-> c]
        ELSE
            [advice |-> adv,
             cache |-> setCacheAdvice(c, h, dealerValue, actions, adv)]

\* getAdvice consulting the pair table for every pair, split available or not
getAdvice_NoSplitGate(c, h, dCard, actions) ==
    LET dealerValue == dealerValues[dCard]
        cachedResult == getCachedAdvice(c, h, dealerValue, actions)
        pairAdvice == getPairStrategy(h.cards[1], dealerValue, actions)
        adv == IF h.isSoft
               THEN getSoftStrategy(h.total, dealerValue, actions)
               ELSE getHardStrategy(h.total, dealerValue, actions)
    IN  IF cachedResult # Null THEN
            [advice |-> cachedResult, cache |-> c]
        ELSE IF h.isPair /\ pairAdvice.action = "SPLIT" THEN
            [advice |-> pairAdvice,
             cache |-> setCacheAdvice(c, h, dealerValue, actions, pairAdvice)]
        ELSE
            [advice |-> adv,
             cache |-> setCacheAdvice(c, h, dealerValue, actions, adv)]

\* getAdvice on an instance whose cache is c: the advice returned and the cache left
getAdvice(c, h, dCard, actions) ==
    LET dealerValue == dealerValues[dCard]
        cachedResult == getCachedAdvice(c, h, dealerValue, actions)
        pairAdvice == getPairStrategy(h.cards[1], dealerValue, actions)
        adv == IF h.isSoft
               THEN getSoftStrategy(h.total, dealerValue, actions)
               ELSE getHardStrategy(h.total, dealerValue, actions)
    IN  IF cachedResult # Null THEN
            [advice |-> cachedResult, cache |-> c]
        ELSE IF h.isPair /\ Includes(actions, "split") /\ pairAdvice.action = "SPLIT" THEN
            [advice |-> pairAdvice,
             cache |-> setCacheAdvice(c, h, dealerValue, actions, pairAdvice)]
        ELSE
            [advice |-> adv,
             cache |-> setCacheAdvice(c, h, dealerValue, actions, adv)]

----------------------------------------------------------------------------
(* Inputs *)

\* the lists getAvailableActions builds: hit, stand, then the checked boxes in this order
ActionLists ==
    { <<"hit", "stand">> \o d \o sp \o su :
        d \in {<<>>, <<"double">>}, sp \in {<<>>, <<"split">>}, su \in {<<>>, <<"surrender">>} }

\* every sequence of ranks of length lo..hi
CardSeqs(lo, hi) == UNION { [1..n -> Ranks] : n \in lo..hi }

\* total mode: the hand object getAdvice of the application builds
TotalModeHand(total, isSoft) ==
    [total |-> total, isSoft |-> isSoft, isPair |-> FALSE, cards |-> <<>>]

TotalModeHands == { TotalModeHand(t, s) : t \in 4..21, s \in BOOLEAN }

\* cards mode: the hands calculateHand produces
CardHands(lo, hi) == { calculateHand(cs) : cs \in CardSeqs(lo, hi) }

EngineHands == TotalModeHands \cup CardHands(MinCards, EngineCards)

NoHand == [total |-> 0, isSoft |-> FALSE, isPair |-> FALSE, cards |-> <<>>]

----------------------------------------------------------------------------
(* BlackjackApp: its fields, the page elements it reads and writes, and its *)
(* handlers as functions of the state s = [app, dom]                        *)

\* this.selectedDealerCard before a dealer card is chosen
NoCard == "null"

\* the actions counted in stats.actionCounts
StatActions == {"HIT", "STAND", "DOUBLE", "SPLIT", "SURRENDER"}

\* addToHistory keeps this many entries
MaxHistory == 10

\* the fields after the constructor, with the input mode loadSettings restores
AppNew(mode) ==
    [selectedDealerCard |-> NoCard,
     playerCards |-> <<>>,
     inputMode |-> mode,
     handHistory |-> <<>>,
     stats |-> [totalQueries |-> 0, actionCounts |-> [a \in StatActions |-> 0]]]

\* the page after init(): nothing entered, nothing checked, split switched off
\* by updateSplitAvailability, the result section hidden, no toast
DomNew ==
    [handTotal |-> <<>>,
     isSoftHand |-> FALSE,
     doubleAction |-> FALSE,
     splitAction |-> [checked |-> FALSE, disabled |-> TRUE],
     surrenderAction |-> FALSE,
     result |-> Null,
     handSummary |-> NoHand,
     toast |-> ""]

IsDigit(ch) == ch \in {"0", "1", "2", "3", "4", "5", "6", "7", "8", "9"}

\* the number of leading digit characters of a text
RECURSIVE LeadingDigits(_)
LeadingDigits(text) ==
    IF text = <<>> \/ ~IsDigit(Head(text)) THEN 0 ELSE 1 + LeadingDigits(Tail(text))

\* the decimal value of a sequence of digit characters
RECURSIVE DigitsValue(_)
DigitsValue(digits) ==
    IF digits = <<>> THEN 0
    ELSE DigitsValue(SubSeq(digits, 1, Len(digits) - 1)) * 10 + DigitValue(digits[Len(digits)])

\* parseInt on the text of #handTotal (a sequence of characters without sign
\* or blanks): the value of its leading digits, NaN when it has none
parseIntText(text) ==
    LET n == LeadingDigits(text)
    IN  IF n = 0 THEN [isNaN |-> TRUE, value |-> 0]
        ELSE [isNaN |-> FALSE, value |-> DigitsValue(SubSeq(text, 1, n))]

\* updateSplitAvailability looking at the cards in total mode as well
updateSplitAvailability_AnyMode(a, d) ==
    IF Len(a.playerCards) = 2
        THEN [d EXCEPT !.splitAction.disabled =
                ~(getCardValue(a.playerCards[1]) = getCardValue(a.playerCards[2]))]
    ELSE [d EXCEPT !.splitAction = [checked |-> FALSE, disabled |-> TRUE]]

updateSplitAvailability(a, d) ==
    IF a.inputMode = "total"
        THEN [d EXCEPT !.splitAction = [checked |-> FALSE, disabled |-> TRUE]]
    ELSE IF Len(a.playerCards) = 2
        THEN [d EXCEPT !.splitAction.disabled =
                ~(getCardValue(a.playerCards[1]) = getCardValue(a.playerCards[2]))]
    ELSE [d EXCEPT !.splitAction = [checked |-> FALSE, disabled |-> TRUE]]

selectDealerCard(s, value) == [s EXCEPT !.app.selectedDealerCard = value]

addPlayerCard(s, cardValue) ==
    IF Len(s.app.playerCards) >= MaxCards
        THEN [s EXCEPT !.dom.toast = "Maximaal 5 kaarten"]
    ELSE LET a == [s.app EXCEPT !.playerCards = Append(@, cardValue)]
         IN  [app |-> a, dom |-> updateSplitAvailability(a, s.dom)]

clearPlayerCards(s) ==
    LET a == [s.app EXCEPT !.playerCards = <<>>]
    IN  [app |-> a,
         dom |-> [updateSplitAvailability(a, s.dom) EXCEPT !.result = Null,
                                                           !.handSummary = NoHand]]

switchInputMode(s, mode) ==
    LET a == [s.app EXCEPT !.inputMode = mode]
    IN  [app |-> a, dom |-> updateSplitAvailability(a, s.dom)]

\* the quick scenarios of createQuickScenarios
scenarios ==
    { [name |-> "Hard 16 vs 10", dealer |-> "10", cards |-> <<"10", "6">>],
      [name |-> "Soft 18 vs 9", dealer |-> "9", cards |-> <<"A", "7">>],
      [name |-> "Pair 8s vs A", dealer |-> "A", cards |-> <<"8", "8">>],
      [name |-> "Hard 11 vs 6", dealer |-> "6", cards |-> <<"5", "6">>] }

\* scenario.cards.forEach(card => this.addPlayerCard(card))
RECURSIVE AddPlayerCards(_, _)
AddPlayerCards(s, cs) ==
    IF cs = <<>> THEN s ELSE AddPlayerCards(addPlayerCard(s, Head(cs)), Tail(cs))

loadScenario(s, scenario) ==
    LET s1 == switchInputMode(s, "cards")
        s2 == clearPlayerCards(s1)
        s3 == selectDealerCard(s2, scenario.dealer)
        s4 == AddPlayerCards(s3, scenario.cards)
    IN  [s4 EXCEPT !.dom.toast = "Scenario geladen: " \o scenario.name]

\* BlackjackApp.getAdvice without the blackjack short-circuit
appGetAdvice_NoBlackjack(s) ==
    LET total == parseIntText(s.dom.handTotal)
        h == IF s.app.inputMode = "cards" THEN calculateHand(s.app.playerCards)
             ELSE [total |-> total.value, isSoft |-> s.dom.isSoftHand,
                   isPair |-> FALSE, cards |-> <<>>]
    IN  IF s.app.selectedDealerCard = NoCard
            THEN [returns |-> "toast", toast |-> "Selecteer eerst een dealer kaart", hand |-> NoHand]
        ELSE IF s.app.inputMode = "cards" /\ Len(s.app.playerCards) < MinCards
            THEN [returns |-> "toast", toast |-> "Selecteer minimaal 2 kaarten", hand |-> NoHand]
        ELSE IF s.app.inputMode # "cards"
                /\ (total.isNaN \/ total.value = 0 \/ total.value < 4 \/ total.value > 21)
            THEN [returns |-> "toast", toast |-> "Voer een geldig totaal in (4-21)", hand |-> NoHand]
        ELSE IF h.total > 21
            THEN [returns |-> "BUST", toast |-> "", hand |-> h]
        ELSE [returns |-> "advice", toast |-> "", hand |-> h]

\* BlackjackApp.getAdvice up to the call of the engine: where it returns (with
\* a toast, with BUST or BLACKJACK shown, or with the advice of the engine)
\* and the hand it built
appGetAdvice(s) ==
    LET total == parseIntText(s.dom.handTotal)
        h == IF s.app.inputMode = "cards" THEN calculateHand(s.app.playerCards)
             ELSE [total |-> total.value, isSoft |-> s.dom.isSoftHand,
                   isPair |-> FALSE, cards |-> <<>>]
    IN  IF s.app.selectedDealerCard = NoCard
            THEN [returns |-> "toast", toast |-> "Selecteer eerst een dealer kaart", hand |-> NoHand]
        ELSE IF s.app.inputMode = "cards" /\ Len(s.app.playerCards) < MinCards
            THEN [returns |-> "toast", toast |-> "Selecteer minimaal 2 kaarten", hand |-> NoHand]
        ELSE IF s.app.inputMode # "cards"
                /\ (total.isNaN \/ total.value = 0 \/ total.value < 4 \/ total.value > 21)
            THEN [returns |-> "toast", toast |-> "Voer een geldig totaal in (4-21)", hand |-> NoHand]
        ELSE IF h.total > 21
            THEN [returns |-> "BUST", toast |-> "", hand |-> h]
        ELSE IF h.total = 21 /\ Len(s.app.playerCards) = 2
            THEN [returns |-> "BLACKJACK", toast |-> "", hand |-> h]
        ELSE [returns |-> "advice", toast |-> "", hand |-> h]

\* updateStats(action) on this.stats
updateStats(stats, action) ==
    [totalQueries |-> stats.totalQueries + 1,
     actionCounts |-> IF action \in DOMAIN stats.actionCounts
                        THEN [stats.actionCounts EXCEPT ![action] = @ + 1]
                        ELSE stats.actionCounts]

\* addToHistory(hand, dealerCard, advice) on this.handHistory, newest first
addToHistory(history, h, dCard, adv) ==
    LET entry == [hand |-> h.total, type |-> IF h.isSoft THEN "Soft" ELSE "Hard",
                  dealer |-> dCard, action |-> adv.action]
        added == <<entry>> \o history
    IN  IF Len(added) > MaxHistory THEN SubSeq(added, 1, Len(added) - 1) ELSE added

\* showResult(advice, hand): the hand summary is shown in cards mode only
showResult(s, adv, h) ==
    [s.dom EXCEPT !.result = adv,
                  !.handSummary = IF h # NoHand /\ s.app.inputMode = "cards" THEN h ELSE NoHand]

getAvailableActions(d) ==
    <<"hit", "stand">>
        \o (IF d.doubleAction THEN <<"double">> ELSE <<>>)
        \o (IF d.splitAction.checked /\ ~d.splitAction.disabled THEN <<"split">> ELSE <<>>)
        \o (IF d.surrenderAction THEN <<"surrender">> ELSE <<>>)

----------------------------------------------------------------------------
(* SpecEngine: each function of the engine applied once, on a fresh instance *)

InitEngine ==
    /\ hand \in EngineHands
    /\ dealerCard \in Ranks
    /\ availableActions \in ActionLists
    /\ cache = <<>>
    /\ advice = Null
    /\ pc = "ready"
    /\ hit = FALSE
    /\ calls = 0
    /\ warm = 0
    /\ cards = hand.cards
    /\ app = AppNew("cards")
    /\ dom = DomNew

CallGetAdvice ==
    /\ pc = "ready"
    /\ LET r == getAdvice(cache, hand, dealerCard, availableActions)
       IN  /\ advice' = r.advice
           /\ cache' = r.cache
           /\ hit' = CacheHas(cache, getCacheKey(hand, dealerValues[dealerCard], availableActions))
    /\ pc' = "getAdvice"
    /\ calls' = calls + 1
    /\ UNCHANGED <<hand, dealerCard, availableActions, warm, cards, app, dom>>

CallGetPairStrategy ==
    /\ pc = "ready"
    /\ Len(hand.cards) >= 1
    /\ advice' = getPairStrategy(hand.cards[1], dealerValues[dealerCard], availableActions)
    /\ pc' = "getPairStrategy"
    /\ UNCHANGED <<cache, hand, dealerCard, availableActions, hit, calls, warm, cards, app, dom>>

CallGetSoftStrategy ==
    /\ pc = "ready"
    /\ advice' = getSoftStrategy(hand.total, dealerValues[dealerCard], availableActions)
    /\ pc' = "getSoftStrategy"
    /\ UNCHANGED <<cache, hand, dealerCard, availableActions, hit, calls, warm, cards, app, dom>>

CallGetHardStrategy ==
    /\ pc = "ready"
    /\ advice' = getHardStrategy(hand.total, dealerValues[dealerCard], availableActions)
    /\ pc' = "getHardStrategy"
    /\ UNCHANGED <<cache, hand, dealerCard, availableActions, hit, calls, warm, cards, app, dom>>

NextEngine ==
    \/ CallGetAdvice
    \/ CallGetPairStrategy
    \/ CallGetSoftStrategy
    \/ CallGetHardStrategy

SpecEngine == InitEngine /\ [][NextEngine]_vars

----------------------------------------------------------------------------
(* SpecHand: calculateHand applied to every hand the application can hold *)

InitHand ==
    /\ cards \in CardSeqs(MinCards, MaxCards)
    /\ hand = NoHand
    /\ dealerCard = "2"
    /\ availableActions = <<"hit", "stand">>
    /\ cache = <<>>
    /\ advice = Null
    /\ pc = "ready"
    /\ hit = FALSE
    /\ calls = 0
    /\ warm = 0
    /\ app = AppNew("cards")
    /\ dom = DomNew

CallCalculateHand ==
    /\ pc = "ready"
    /\ hand' = calculateHand(cards)
    /\ pc' = "calculateHand"
    /\ UNCHANGED <<cache, dealerCard, availableActions, advice, hit, calls, warm, cards, app, dom>>

NextHand == CallCalculateHand

SpecHand == InitHand /\ [][NextHand]_vars

----------------------------------------------------------------------------
(* Spec: one BlackjackStrategy instance serving getAdvice calls.  The calls *)
(* explored are a warm-up of 0, cacheMaxSize or cacheMaxSize + BatchOver    *)
(* calls with pairwise different keys, followed by up to MaxCalls calls     *)
(* with any input of the Instance sets.                                     *)

\* the hands of the free calls: a pair, the same total as a hard non-pair, as a
\* soft hand and in total mode, a ten-valued pair of two ranks, and the hand of
\* the first warm-up call
InstanceHands ==
    { calculateHand(cs) : cs \in { <<"8", "8">>, <<"10", "6">>, <<"A", "5">>,
                                   <<"10", "K">> } }
      \cup { TotalModeHand(16, FALSE), TotalModeHand(4, FALSE) }

\* a weak upcard, and two ranks of the same dealer value
InstanceDealers == {"6", "10", "K"}

\* no optional action, all of them in the order of getAvailableActions, and the
\* same actions in another order
InstanceActions ==
    { <<"hit", "stand">>,
      <<"hit", "stand", "double", "split", "surrender">>,
      <<"hit", "stand", "surrender", "split", "double">> }

\* the i-th warm-up call: hard totals 4..21 in total mode against 6, 2, 3, ...
WarmDealers == <<"6", "2", "3", "4", "5", "7", "8", "9">>

WarmQuery(i) ==
    [hand |-> TotalModeHand(4 + ((i - 1) % 18), FALSE),
     dealerCard |-> WarmDealers[1 + ((i - 1) \div 18)],
     availableActions |-> <<"hit", "stand">>]

MaxWarm == cacheMaxSize + BatchOver

Init ==
    /\ cache = <<>>
    /\ hand = NoHand
    /\ dealerCard = "2"
    /\ availableActions = <<"hit", "stand">>
    /\ advice = Null
    /\ pc = "idle"
    /\ hit = FALSE
    /\ calls = 0
    /\ warm = 0
    /\ cards = <<>>
    /\ app = AppNew("cards")
    /\ dom = DomNew

\* strategy.getAdvice(h, d, a) on the instance
Call(h, d, a) ==
    LET r == getAdvice(cache, h, d, a)
    IN  /\ hand' = h
        /\ dealerCard' = d
        /\ availableActions' = a
        /\ advice' = r.advice
        /\ cache' = r.cache
        /\ hit' = CacheHas(cache, getCacheKey(h, dealerValues[d], a))
        /\ cards' = h.cards
        /\ pc' = "getAdvice"

\* the next call of the warm-up
WarmCall ==
    /\ calls = 0
    /\ warm < MaxWarm
    /\ LET q == WarmQuery(warm + 1)
       IN  Call(q.hand, q.dealerCard, q.availableActions)
    /\ warm' = warm + 1
    /\ UNCHANGED <<calls, app, dom>>

\* a call with any input
GetAdvice ==
    /\ calls < MaxCalls
    /\ warm \in {0, cacheMaxSize, MaxWarm}
    /\ \E h \in InstanceHands, d \in InstanceDealers, a \in InstanceActions :
        Call(h, d, a)
    /\ calls' = calls + 1
    /\ UNCHANGED <<warm, app, dom>>

Next ==
    \/ WarmCall
    \/ GetAdvice

Spec == Init /\ [][Next]_vars

----------------------------------------------------------------------------
(* SpecAlias: a caller that writes into the advice object it was handed.    *)
(* cache.set stores and cache.get returns the object itself, so the object  *)
(* the caller holds is the one in the cache under the key of its call.      *)

AliasHands == { TotalModeHand(16, FALSE), calculateHand(<<"8", "8">>) }

AliasDealers == {"6", "10"}

AliasActions == { <<"hit", "stand">>, <<"hit", "stand", "double", "split", "surrender">> }

\* the assignments of the caller: advice.action = ..., advice.explanation = ...
AliasWrites ==
    { [field |-> "action", value |-> "STAND"],
      [field |-> "explanation", value |-> "changed by the caller"] }

\* the cache after a write to a field of the advice object stored under key
WriteThrough(c, key, field, value) ==
    [i \in 1..Len(c) |->
        IF c[i].key = key THEN [c[i] EXCEPT !.advice[field] = value] ELSE c[i]]

AliasGetAdvice ==
    /\ calls < MaxCalls
    /\ \E h \in AliasHands, d \in AliasDealers, a \in AliasActions :
        Call(h, d, a)
    /\ calls' = calls + 1
    /\ UNCHANGED <<warm, app, dom>>

\* the caller assigns to a field of the advice the last call returned
MutateAdvice ==
    /\ pc = "getAdvice"
    /\ \E w \in AliasWrites :
        /\ advice' = [advice EXCEPT ![w.field] = w.value]
        /\ cache' = WriteThrough(cache, getCacheKey(hand, dealerValues[dealerCard], availableActions),
                                 w.field, w.value)
    /\ pc' = "mutated"
    /\ UNCHANGED <<hand, dealerCard, availableActions, hit, calls, warm, cards, app, dom>>

NextAlias ==
    \/ AliasGetAdvice
    \/ MutateAdvice

SpecAlias == Init /\ [][NextAlias]_vars

----------------------------------------------------------------------------
(* SpecApp: the application driven by its user.  Any sequence of user       *)
(* operations is explored, ended by one click on the advice button: the     *)
(* click changes the cache, the statistics, the history and the result      *)
(* shown, none of which an operation or a later click reads to validate.    *)

\* the card buttons pressed: the lowest card, a ten and the ace
AppRanks == {"2", "K", "A"}

\* the dealer buttons pressed
AppDealers == {"6"}

\* the texts typed into #handTotal: empty, below, at both ends of and above
\* the accepted range
AppTotals == { <<>>, <<"3">>, <<"4">>, <<"2", "1">>, <<"2", "2">> }

\* the scenario buttons pressed: a pair and a hand that is none
AppScenarios == { sc \in scenarios : sc.name \in {"Pair 8s vs A", "Hard 11 vs 6"} }

\* the state of the application, the toast of the operation before gone
AppState == [app |-> app, dom |-> [dom EXCEPT !.toast = ""]]

\* what the engine and its caller-side record of the last call consist of
callVars == <<cache, hand, dealerCard, availableActions, advice, pc, hit, calls, warm, cards>>

InitApp ==
    /\ cache = <<>>
    /\ hand = NoHand
    /\ dealerCard = "2"
    /\ availableActions = <<"hit", "stand">>
    /\ advice = Null
    /\ pc = "idle"
    /\ hit = FALSE
    /\ calls = 0
    /\ warm = 0
    /\ cards = <<>>
    /\ \E mode \in {"cards", "total"} : app = AppNew(mode)
    /\ dom = DomNew

\* an operation of the user that leaves the application in state t
Operate(t) ==
    /\ app' = t.app
    /\ dom' = t.dom
    /\ UNCHANGED callVars

SelectDealerCard ==
    /\ calls = 0
    /\ \E d \in AppDealers : Operate(selectDealerCard(AppState, d))

AddPlayerCard ==
    /\ calls = 0
    /\ \E r \in AppRanks : Operate(addPlayerCard(AppState, r))

ClearPlayerCards ==
    /\ calls = 0
    /\ Operate(clearPlayerCards(AppState))

SwitchInputMode ==
    /\ calls = 0
    /\ \E mode \in {"cards", "total"} : Operate(switchInputMode(AppState, mode))

LoadScenario ==
    /\ calls = 0
    /\ \E sc \in AppScenarios : Operate(loadScenario(AppState, sc))

EnterTotal ==
    /\ calls = 0
    /\ \E text \in AppTotals : Operate([AppState EXCEPT !.dom.handTotal = text])

ToggleSoftHand ==
    /\ calls = 0
    /\ Operate([AppState EXCEPT !.dom.isSoftHand = ~@])

ToggleDouble ==
    /\ calls = 0
    /\ Operate([AppState EXCEPT !.dom.doubleAction = ~@])

\* a disabled checkbox takes no click
ToggleSplit ==
    /\ calls = 0
    /\ ~dom.splitAction.disabled
    /\ Operate([AppState EXCEPT !.dom.splitAction.checked = ~@])

ToggleSurrender ==
    /\ calls = 0
    /\ Operate([AppState EXCEPT !.dom.surrenderAction = ~@])

\* the click on the advice button, returning before the engine is called
ClickReturnsEarly ==
    /\ calls = 0
    /\ LET s == AppState
           r == appGetAdvice(s)
       IN  /\ r.returns # "advice"
           /\ pc' = r.returns
           /\ hand' = r.hand
           /\ cards' = r.hand.cards
           /\ app' = app
           /\ dom' = IF r.returns = "toast" THEN [s.dom EXCEPT !.toast = r.toast]
                     ELSE showResult(s, [action |-> r.returns,
                                         explanation |-> IF r.returns = "BUST"
                                            THEN "Je hand is al gebusted (over 21). Er is geen actie meer mogelijk."
                                            ELSE "Blackjack! Je hebt de perfecte hand."], NoHand)
    /\ calls' = 1
    /\ UNCHANGED <<cache, dealerCard, availableActions, advice, hit, warm>>

\* the click on the advice button, reaching the engine
ClickGetsAdvice ==
    /\ calls = 0
    /\ LET s == AppState
           r == appGetAdvice(s)
       IN  /\ r.returns = "advice"
           /\ Call(r.hand, s.app.selectedDealerCard, getAvailableActions(s.dom))
           /\ app' = [app EXCEPT !.stats = updateStats(@, advice'.action),
                                 !.handHistory = addToHistory(@, r.hand, s.app.selectedDealerCard, advice')]
           /\ dom' = showResult(s, advice', r.hand)
    /\ calls' = 1
    /\ UNCHANGED warm

NextApp ==
    \/ SelectDealerCard
    \/ AddPlayerCard
    \/ ClearPlayerCards
    \/ SwitchInputMode
    \/ LoadScenario
    \/ EnterTotal
    \/ ToggleSoftHand
    \/ ToggleDouble
    \/ ToggleSplit
    \/ ToggleSurrender
    \/ ClickReturnsEarly
    \/ ClickGetsAdvice

SpecApp == InitApp /\ [][NextApp]_vars

----------------------------------------------------------------------------
(* Properties *)

AdviceActions == {"HIT", "STAND", "DOUBLE", "SPLIT", "SURRENDER"}

DealerValue == dealerValues[dealerCard]

CanDouble == Includes(availableActions, "double")

CanSplit == Includes(availableActions, "split")

CanSurrender == Includes(availableActions, "surrender")

\* C1: for every non-pair hand with total 4..21, soft or hard, every dealer value
\* 2..11 and every action list, getAdvice returns an advice whose action is one
\* of HIT, STAND, DOUBLE, SPLIT, SURRENDER, and never null.
C1_Totality ==
    (pc = "getAdvice" /\ hand.total \in 4..21 /\ ~hand.isPair /\ DealerValue \in 2..11)
        => (advice # Null /\ advice.action \in AdviceActions)

\* a hard 5 against an ace got an advice from the last fall-through of the hard table
C1_Witness ==
    /\ pc = "getAdvice"
    /\ hand = TotalModeHand(5, FALSE)
    /\ dealerCard = "A"
    /\ availableActions = <<"hit", "stand", "double", "split", "surrender">>
    /\ advice.action = "HIT"

\* the hard-strategy table, row by row
HardTable(total, dv, canDouble, canSurrender) ==
    CASE total >= 17 -> "STAND"
      [] total = 16 -> IF dv >= 9 /\ canSurrender THEN "SURRENDER"
                       ELSE IF dv \in 2..6 THEN "STAND" ELSE "HIT"
      [] total = 15 -> IF dv = 10 /\ canSurrender THEN "SURRENDER"
                       ELSE IF dv \in 2..6 THEN "STAND" ELSE "HIT"
      [] total \in 13..14 -> IF dv \in 2..6 THEN "STAND" ELSE "HIT"
      [] total = 12 -> IF dv \in 4..6 THEN "STAND" ELSE "HIT"
      [] total = 11 -> IF canDouble THEN "DOUBLE" ELSE "HIT"
      [] total = 10 -> IF dv \in 2..9 /\ canDouble THEN "DOUBLE" ELSE "HIT"
      [] total = 9 -> IF dv \in 3..6 /\ canDouble THEN "DOUBLE" ELSE "HIT"
      [] total <= 8 -> "HIT"

\* C3: getHardStrategy returns the action of the hard-strategy table for every
\* total 4..21, dealer value 2..11 and availability of double and surrender.
C3_HardTable ==
    (pc = "getHardStrategy" /\ hand.total \in 4..21 /\ DealerValue \in 2..11)
        => advice.action = HardTable(hand.total, DealerValue, CanDouble, CanSurrender)

\* hard 15 against an ace with surrender available is a HIT, not a SURRENDER
C3_Witness ==
    /\ pc = "getHardStrategy"
    /\ hand.total = 15
    /\ DealerValue = 11
    /\ CanSurrender
    /\ advice.action = "HIT"

\* the soft-strategy table, row by row
SoftTable(total, dv, canDouble) ==
    CASE total = 20 -> "STAND"
      [] total = 19 -> IF dv = 6 /\ canDouble THEN "DOUBLE" ELSE "STAND"
      [] total = 18 -> IF dv >= 9 THEN "HIT"
                       ELSE IF dv \in 3..6 /\ canDouble THEN "DOUBLE" ELSE "STAND"
      [] total = 17 -> IF dv \in 3..6 /\ canDouble THEN "DOUBLE" ELSE "HIT"
      [] total \in 15..16 -> IF dv \in 4..6 /\ canDouble THEN "DOUBLE" ELSE "HIT"
      [] total \in 13..14 -> IF dv \in {5, 6} /\ canDouble THEN "DOUBLE" ELSE "HIT"
      [] total <= 12 -> "HIT"

\* C4: getSoftStrategy returns the action of the soft-strategy table for every
\* total up to 20, dealer value 2..11 and availability of double, and its result
\* is the same for every action list with the same availability of double.
C4_SoftTable ==
    (pc = "getSoftStrategy" /\ hand.total <= 20 /\ DealerValue \in 2..11)
        => /\ advice.action = SoftTable(hand.total, DealerValue, CanDouble)
           /\ \A a \in ActionLists :
                Includes(a, "double") = CanDouble
                    => getSoftStrategy(hand.total, DealerValue, a) = advice

\* soft 18 against a 9 is a HIT, also when double, split and surrender are available
C4_Witness ==
    /\ pc = "getSoftStrategy"
    /\ hand.total = 18
    /\ DealerValue = 9
    /\ CanDouble /\ CanSplit /\ CanSurrender
    /\ advice.action = "HIT"

\* the pair table, by the numeric value of the pair's cards
PairTable(pv, dv, canDouble) ==
    CASE pv = 11 -> "SPLIT"
      [] pv = 10 -> "STAND"
      [] pv = 9 -> IF dv = 7 \/ dv >= 10 THEN "STAND" ELSE "SPLIT"
      [] pv = 8 -> "SPLIT"
      [] pv = 7 -> IF dv \in 2..7 THEN "SPLIT" ELSE "HIT"
      [] pv = 6 -> IF dv \in 2..6 THEN "SPLIT" ELSE "HIT"
      [] pv = 5 -> HardTable(10, dv, canDouble, FALSE)
      [] pv = 4 -> IF dv \in {5, 6} THEN "SPLIT" ELSE "HIT"
      [] pv \in {2, 3} -> IF dv \in 2..7 THEN "SPLIT" ELSE "HIT"

\* C5: getPairStrategy returns the action of the pair table for every card rank
\* (J, Q, K as 10, A as 11) and dealer value 2..11; for 5s the result is never
\* SPLIT and is the advice of getHardStrategy(10, dealer, actions).
C5_PairTable ==
    (pc = "getPairStrategy" /\ DealerValue \in 2..11)
        => LET pv == getCardValue(hand.cards[1])
           IN  /\ pv \in (2..10) \cup {11}
               /\ advice.action = PairTable(pv, DealerValue, CanDouble)
               /\ pv = 5 => /\ advice.action # "SPLIT"
                            /\ advice = getHardStrategy(10, DealerValue, availableActions)

\* a pair of 4s against a 4 is a HIT
C5_Witness ==
    /\ pc = "getPairStrategy"
    /\ hand.cards = <<"4", "4">>
    /\ DealerValue = 4
    /\ advice.action = "HIT"

\* the advice of a new instance, whose cache is empty
Uncached(h, dCard, actions) == getAdvice(<<>>, h, dCard, actions).advice

\* C2: on one instance, after any sequence of earlier getAdvice calls, also one
\* that filled the cache and evicted entries, a getAdvice call returns the
\* action and explanation that the uncached computation of a new instance
\* returns for the same inputs.
C2_CacheTransparent ==
    pc = "getAdvice" => advice = Uncached(hand, dealerCard, availableActions)

\* after a warm-up that evicted an entry, a pair of 8s asked a second time is served from the cache
C2_Witness ==
    /\ pc = "getAdvice"
    /\ warm > cacheMaxSize
    /\ Len(cache) = cacheMaxSize
    /\ calls = 2
    /\ hit
    /\ hand.isPair /\ hand.total = 16
    /\ CanSplit
    /\ advice.action = "SPLIT"

\* a pair of 9s as calculateHand reports it, asked with split available
NinesWithSplit ==
    /\ pc = "getAdvice"
    /\ hand.isPair
    /\ getCardValue(hand.cards[1]) = 9
    /\ CanSplit

\* C6 as stated: for a pair of 9s with split available getAdvice returns SPLIT
\* exactly against 2..6 and 8, and STAND against 7, 9, 10 and the ace.
C6_Original ==
    NinesWithSplit
        => /\ (advice.action = "SPLIT") <=> (DealerValue \in {2, 3, 4, 5, 6, 8})
           /\ DealerValue \in {7, 9, 10, 11} => advice.action = "STAND"

\* C6: for a pair of 9s with split available getAdvice returns SPLIT exactly
\* against 2..6, 8 and 9, and STAND against 7, 10 and the ace.
C6_NinesSplit ==
    NinesWithSplit
        => /\ (advice.action = "SPLIT") <=> (DealerValue \in {2, 3, 4, 5, 6, 8, 9})
           /\ DealerValue \in {7, 10, 11} => advice.action = "STAND"

\* 9,9 against a dealer 9 is split
C6_Witness ==
    /\ NinesWithSplit
    /\ DealerValue = 9
    /\ advice.action = "SPLIT"

\* C7: for every pair hand with split available for which the pair table says
\* SPLIT, getAdvice returns the pair resolver's SPLIT advice, whatever the
\* soft/hard strategy says for the total and whatever double and surrender are;
\* 8s and aces are split against every dealer value.
C7_SplitPrecedence ==
    (pc = "getAdvice" /\ hand.isPair /\ CanSplit /\ DealerValue \in 2..11)
        => LET pv == getCardValue(hand.cards[1])
           IN  /\ PairTable(pv, DealerValue, CanDouble) = "SPLIT"
                    => /\ advice.action = "SPLIT"
                       /\ advice = getPairStrategy(hand.cards[1], DealerValue, availableActions)
               /\ pv \in {8, 11} => advice.action = "SPLIT"

\* 8,8 against an ace with surrender available: hard 16 would surrender, the pair is split
C7_Witness ==
    /\ pc = "getAdvice"
    /\ hand.cards = <<"8", "8">>
    /\ DealerValue = 11
    /\ CanSplit /\ CanSurrender
    /\ getHardStrategy(hand.total, DealerValue, availableActions).action = "SURRENDER"
    /\ advice.action = "SPLIT"

\* C8: for every two-card hand of ten-valued cards (any mix of 10, J, Q, K),
\* which calculateHand reports as a pair with total 20, every dealer value and
\* every action list with split, getAdvice returns STAND.
C8_TensNeverSplit ==
    (/\ pc = "getAdvice"
     /\ Len(hand.cards) = 2
     /\ getCardValue(hand.cards[1]) = 10
     /\ getCardValue(hand.cards[2]) = 10
     /\ CanSplit)
        => /\ hand.isPair
           /\ hand.total = 20
           /\ advice.action = "STAND"

\* a 10 and a king against a 6 with every action available
C8_Witness ==
    /\ pc = "getAdvice"
    /\ hand.cards = <<"10", "K">>
    /\ hand.isPair
    /\ DealerValue = 6
    /\ CanSplit /\ CanDouble /\ CanSurrender
    /\ advice.action = "STAND"

\* the list without x
Without(list, x) == SelectSeq(list, LAMBDA y : y # x)

\* C9: (a) a pair hand asked without split gets the soft advice for its total
\* when soft and the hard advice otherwise; (b) a non-pair hand asked with
\* split gets the action and explanation of the same query without split, and
\* never SPLIT.
C9_PairGate ==
    pc = "getAdvice"
        => /\ (hand.isPair /\ ~CanSplit)
                => advice = IF hand.isSoft
                            THEN getSoftStrategy(hand.total, DealerValue, availableActions)
                            ELSE getHardStrategy(hand.total, DealerValue, availableActions)
           /\ (~hand.isPair /\ CanSplit)
                => /\ advice.action # "SPLIT"
                   /\ advice = Uncached(hand, dealerCard, Without(availableActions, "split"))

\* 8,8 asked without split against a 10 with surrender: the hard 16 advice
C9_Witness ==
    /\ pc = "getAdvice"
    /\ hand.cards = <<"8", "8">>
    /\ hand.isPair
    /\ ~CanSplit
    /\ CanSurrender
    /\ DealerValue = 10
    /\ advice.action = "SURRENDER"

\* the sum of a card sequence with every ace counted as 1
RECURSIVE LowSum(_)
LowSum(cs) ==
    IF cs = <<>> THEN 0
    ELSE (IF Head(cs) = "A" THEN 1 ELSE getCardValue(Head(cs))) + LowSum(Tail(cs))

HasAce(cs) == \E i \in 1..Len(cs) : cs[i] = "A"

\* C10: for every sequence of 2 to 5 ranks, with low the sum counting aces as 1,
\* calculateHand gives total = low + 10 and soft when there is an ace and
\* low + 10 <= 21, and total = low and hard otherwise; A,A is soft 12 and
\* A,A,9 is soft 21.
C10_TotalAndSoftness ==
    pc = "calculateHand"
        => LET low == LowSum(cards)
           IN  /\ Len(cards) \in 2..5
               /\ IF HasAce(cards) /\ low + 10 <= 21
                  THEN hand.total = low + 10 /\ hand.isSoft
                  ELSE hand.total = low /\ ~hand.isSoft
               /\ cards = <<"A", "A">> => (hand.total = 12 /\ hand.isSoft)
               /\ cards = <<"A", "A", "9">> => (hand.total = 21 /\ hand.isSoft)

\* A,A,9: one ace is demoted, the other still counts 11
C10_Witness ==
    /\ pc = "calculateHand"
    /\ cards = <<"A", "A", "9">>
    /\ hand.total = 21
    /\ hand.isSoft

\* C11: calculateHand reports isPair exactly for the hands of two cards of
\* equal numeric value (J, Q, K as 10, A as 11): a 10 and a king are a pair, a
\* hand of 3 to 5 cards never is.
C11_PairIffTwoEqualValues ==
    pc = "calculateHand"
        => /\ hand.isPair <=> (Len(cards) = 2 /\ dealerValues[cards[1]] = dealerValues[cards[2]])
           /\ Len(cards) \in 3..5 => ~hand.isPair

\* a 10 and a king are reported as a pair
C11_Witness ==
    /\ pc = "calculateHand"
    /\ cards = <<"10", "K">>
    /\ hand.isPair

\* C12 as stated: for every hand of 2 to 5 cards the total computed by
\* calculateHand lies in 2..30.
C12_Original ==
    pc = "calculateHand" => hand.total \in 2..30

\* C12: for every hand of 2 to 5 cards the total computed by calculateHand lies
\* in 2..50, and in 2..30 for the hands of 2 or 3 cards.
C12_TotalRange ==
    pc = "calculateHand"
        => /\ hand.total \in 2..50
           /\ Len(cards) <= 3 => hand.total \in 2..30

\* five ten-valued cards total 50
C12_Witness ==
    /\ pc = "calculateHand"
    /\ cards = <<"10", "J", "Q", "K", "10">>
    /\ hand.total = 50

\* C17: for every pair hand of calculateHand and every dealer value 2..11, when
\* split is available and the pair resolver returns an action other than SPLIT,
\* the hand is not soft and getAdvice returns getHardStrategy(total, dealer,
\* actions): the soft strategy is never reached from a declined pair.
C17_PairFallbackHard ==
    (/\ pc = "getAdvice"
     /\ hand.isPair
     /\ CanSplit
     /\ DealerValue \in 2..11
     /\ getPairStrategy(hand.cards[1], DealerValue, availableActions).action # "SPLIT")
        => /\ ~hand.isSoft
           /\ advice = getHardStrategy(hand.total, DealerValue, availableActions)

\* 5,5 against a 6 with split and double available: the hard 10 is doubled
C17_Witness ==
    /\ pc = "getAdvice"
    /\ hand.cards = <<"5", "5">>
    /\ hand.isPair
    /\ CanSplit /\ CanDouble
    /\ DealerValue = 6
    /\ advice.action = "DOUBLE"

\* C20: for every hand with total 21 that can reach the engine (hard 21, soft 21
\* of three or more cards, total-mode 21 with the soft flag), every dealer
\* value and every action list, getAdvice returns STAND.
C20_Stand21 ==
    (pc = "getAdvice" /\ hand.total = 21 /\ Len(hand.cards) # 2)
        => advice.action = "STAND"

\* the set of the actions of a list
ActionSet(list) == { list[i] : i \in 1..Len(list) }

\* the cache key of the current call
CurrentKey == getCacheKey(hand, DealerValue, availableActions)

\* C13: a getAdvice call with the total, softness, pair flag and dealer value
\* of the call before it, and the same actions in any order, maps to the same
\* cache key, is a cache hit and adds no cache entry.
C13_CanonicalKey ==
    [][(/\ pc = "getAdvice"
        /\ pc' = "getAdvice"
        /\ hand'.total = hand.total
        /\ hand'.isSoft = hand.isSoft
        /\ hand'.isPair = hand.isPair
        /\ dealerValues[dealerCard'] = dealerValues[dealerCard]
        /\ ActionSet(availableActions') = ActionSet(availableActions))
            => /\ getCacheKey(hand', dealerValues[dealerCard'], availableActions') = CurrentKey
               /\ hit'
               /\ Len(cache') = Len(cache)]_vars

\* C14: the cache never holds more than cacheMaxSize entries, its keys are
\* pairwise different, and right after a getAdvice call it holds an entry for
\* the key of that call.
C14_BoundedCache ==
    /\ Len(cache) <= cacheMaxSize
    /\ Cardinality({ cache[i].key : i \in 1..Len(cache) }) = Len(cache)
    /\ pc = "getAdvice" => CacheHas(cache, CurrentKey)

\* a miss on the full cache leaves it full, with the entry of the call
C14_Witness ==
    /\ pc = "getAdvice"
    /\ warm >= cacheMaxSize
    /\ calls >= 1
    /\ ~hit
    /\ Len(cache) = cacheMaxSize
    /\ cache[Len(cache)].key = CurrentKey

\* C15: a miss on a full cache removes exactly the first entry in insertion
\* order, keeps every other entry in its order and appends the new one; a miss
\* on a cache that is not full only appends; a hit leaves the cache as it is.
C15_OldestEvicted ==
    [][(calls' # calls \/ warm' # warm)
        => LET key == getCacheKey(hand', dealerValues[dealerCard'], availableActions')
               entry == [key |-> key, advice |-> advice']
           IN  /\ hit' => cache' = cache
               /\ (~hit' /\ Len(cache) < cacheMaxSize) => cache' = Append(cache, entry)
               /\ (~hit' /\ Len(cache) >= cacheMaxSize)
                    => /\ cache' = Append(Tail(cache), entry)
                       /\ ~CacheHas(cache', cache[1].key)
                       /\ \A i \in 2..Len(cache) : cache'[i - 1] = cache[i]]_vars

\* after a warm-up that just filled the cache, a miss evicted the entry of the
\* first warm-up call: the cache now starts with the second
C15_Witness ==
    /\ pc = "getAdvice"
    /\ warm = cacheMaxSize
    /\ calls = 1
    /\ ~hit
    /\ Len(cache) = cacheMaxSize
    /\ cache[1].key = getCacheKey(WarmQuery(2).hand, dealerValues[WarmQuery(2).dealerCard],
                                  WarmQuery(2).availableActions)
    /\ cache[Len(cache)].key = CurrentKey

\* C19: getAdvice returns DOUBLE only if double is in the action list,
\* SURRENDER only if surrender is, and SPLIT only if split is and the hand is a
\* pair, also when the advice is served from the cache after earlier calls
\* with other action lists.
C19_LegalAction ==
    pc = "getAdvice"
        => /\ advice.action = "DOUBLE" => CanDouble
           /\ advice.action = "SURRENDER" => CanSurrender
           /\ advice.action = "SPLIT" => (CanSplit /\ hand.isPair)

\* soft 16 against a 6 without double is a HIT, while the cache holds the
\* DOUBLE of the same hand asked with every action
C19_Witness ==
    /\ pc = "getAdvice"
    /\ calls = 2
    /\ hand.total = 16 /\ hand.isSoft
    /\ DealerValue = 6
    /\ availableActions = <<"hit", "stand">>
    /\ advice.action = "HIT"
    /\ CacheHas(cache, getCacheKey(hand, 6, <<"hit", "stand", "double", "split", "surrender">>))
    /\ CacheGet(cache, getCacheKey(hand, 6, <<"hit", "stand", "double", "split", "surrender">>)).action
         = "DOUBLE"

\* C18: whenever BlackjackApp.getAdvice has called the engine, the hand passed
\* has a total in 4..21, the dealer card passed is the selected one, in cards
\* mode the hand is calculateHand of 2 to 5 player cards, and the hand is not
\* a hand of two cards with total 21; a click that found a total above 21
\* showed BUST instead.
C18_CallerBoundary ==
    /\ pc = "getAdvice"
        => /\ hand.total \in 4..21
           /\ app.selectedDealerCard # NoCard
           /\ dealerCard = app.selectedDealerCard
           /\ app.inputMode = "cards"
                => /\ Len(app.playerCards) \in 2..5
                   /\ hand = calculateHand(app.playerCards)
           /\ ~(Len(hand.cards) = 2 /\ hand.total = 21)
    /\ pc = "BUST" => hand.total > 21

\* a 21 of three cards is passed to the engine
C18_Witness ==
    /\ pc = "getAdvice"
    /\ app.inputMode = "cards"
    /\ Len(app.playerCards) = 3
    /\ hand.total = 21
    /\ dom.result = advice

\* C16: after a caller has assigned to a field of the advice it was handed, a
\* getAdvice call with the same hand, dealer card and action list still
\* returns the action and the explanation the engine produces for them.
C16_AdviceImmutable ==
    [][(/\ pc = "mutated"
        /\ pc' = "getAdvice"
        /\ hand' = hand
        /\ dealerCard' = dealerCard
        /\ availableActions' = availableActions)
            => advice' = Uncached(hand', dealerCard', availableActions')]_vars

\* C21: for every pair hand of calculateHand, every dealer card and every
\* action list with split, the action getAdvice returns is the action
\* getPairStrategy returns for the pair, also when that action is not SPLIT and
\* getAdvice took it from the soft or hard strategy on the total.
C21_PairAgrees ==
    (pc = "getAdvice" /\ hand.isPair /\ CanSplit)
        => advice.action = getPairStrategy(hand.cards[1], DealerValue, availableActions).action

\* a pair of 7s against a 10 with split available: HIT, from the hard strategy
C21_Witness ==
    /\ pc = "getAdvice"
    /\ hand = calculateHand(<<"7", "7">>)
    /\ DealerValue = 10
    /\ CanSplit
    /\ getPairStrategy(hand.cards[1], DealerValue, availableActions).action = "HIT"
    /\ advice = getHardStrategy(14, DealerValue, availableActions)

\* the application with other cards left in playerCards
WithPlayerCards(cs) == [app |-> [app EXCEPT !.playerCards = cs], dom |-> dom]

\* C22: in total mode the click on the advice button ends as it would with no
\* card left in playerCards: with the same toast, with BLACKJACK or BUST, or
\* with the advice of the engine for the entered total, the soft flag, the
\* selected dealer card and the checked actions.
C22_TotalModeIndependent ==
    (calls = 1 /\ app.inputMode = "total")
        => LET r == appGetAdvice(WithPlayerCards(<<>>))
           IN  IF r.returns = "advice"
                 THEN /\ pc = "getAdvice"
                      /\ dom.result = Uncached(r.hand, app.selectedDealerCard,
                                               getAvailableActions(dom))
                 ELSE pc = r.returns

\* C23: whenever BlackjackApp.getAdvice has passed an action list with split
\* to the engine, the application is in cards mode and the hand passed is a
\* pair of exactly two cards of equal numeric value; in total mode the split
\* checkbox is unchecked and disabled.
C23_SplitGate ==
    /\ (pc = "getAdvice" /\ CanSplit)
        => /\ app.inputMode = "cards"
           /\ Len(hand.cards) = 2
           /\ getCardValue(hand.cards[1]) = getCardValue(hand.cards[2])
           /\ hand.isPair
    /\ app.inputMode = "total"
        => (~dom.splitAction.checked /\ dom.splitAction.disabled)

\* the pair of 8s of a scenario, asked with the split checkbox checked
C23_Witness ==
    /\ pc = "getAdvice"
    /\ CanSplit
    /\ app.playerCards = <<"8", "8">>
    /\ advice.action = "SPLIT"

====
